---- MODULE Spec2Model ----
(***************************************************************************)
(* FCND-Motion-Planning: the grid search (planning_utils.a_star), the path *)
(* pruning (motion_planning.prune_path) and the flight state machine       *)
(* (motion_planning.MotionPlanning), modelled from the Python sources.     *)
(*                                                                         *)
(* Nodes are the 0-based (north-index, east-index) tuples of the code.     *)
(* A grid is [rows, cols, blocked]: grid.shape and the set of cells whose  *)
(* value is 1.                                                             *)
(***************************************************************************)
EXTENDS Integers, Sequences, FiniteSets, TLC

VARIABLES
    a_grid, a_start, a_goal,    \* the arguments of one a_star call
    a_out,                      \* what that call produced
    \* the attributes of the MotionPlanning object
    flight_state, target_position, waypoints, in_mission,
    \* the telemetry attributes of Drone that the callbacks read
    armed, guided, local_position, local_velocity,
    global_height,              \* global_position[2] - global_home[2]
    \* what the object has done to its collaborators
    commands,                   \* the vehicle commands issued, in order
    sent,                       \* the waypoint lists given to send_waypoints
    raised,                     \* the exception the last callback ended with
    msg,                        \* the MsgID of the last message delivered
    p_grid, p_path,             \* the arguments of one prune_path call
    p_out,                      \* what that call returned
    g_data, g_safety,           \* the arguments of one create_grid call
    g_out                       \* what that call returned

astar_vars == <<a_grid, a_start, a_goal, a_out>>

prune_vars == <<p_grid, p_path, p_out>>

grid_vars == <<g_data, g_safety, g_out>>

drone_vars == <<flight_state, target_position, waypoints, in_mission,
                armed, guided, local_position, local_velocity, global_height,
                commands, sent, raised, msg>>

vars == <<a_grid, a_start, a_goal, a_out,
          flight_state, target_position, waypoints, in_mission,
          armed, guided, local_position, local_velocity, global_height,
          commands, sent, raised, msg,
          p_grid, p_path, p_out, g_data, g_safety, g_out>>

---------------------------------------------------------------------------
(* Bounds of the model *)

\* grid.shape of the grids explored: 3 rows (north), 4 columns (east)
GridShape == <<3, 4>>
\* the most cells an a_star input grid has blocked
MaxBlocked == 3
\* the most cells the grid of a mission has blocked
MaxMissionBlocked == 1

GridRows == GridShape[1]
GridCols == GridShape[2]

AllCells == (0 .. GridRows - 1) \X (0 .. GridCols - 1)

Grids ==
    { [rows |-> GridRows, cols |-> GridCols, blocked |-> b] :
        b \in { s \in SUBSET AllCells : Cardinality(s) <= MaxBlocked } }

---------------------------------------------------------------------------
(* IEEE-754 binary64 values as the code's float arithmetic produces them.  *)
(* A float v (0, or 1 <= v < 64) is <<hi, lo>> with                        *)
(* v * 2^52 = hi * 2^29 + lo, 0 <= lo < 2^29.                              *)
LimbBase == 2^29

FZero == <<0, 0>>
FOne == <<2^23, 0>>

FltLess(x, y) == x[1] < y[1] \/ (x[1] = y[1] /\ x[2] < y[2])

RECURSIVE UlpOf(_)
\* the spacing of doubles around a value whose high limb is hi, in 2^-52
UlpOf(hi) == IF hi < 2^24 THEN 1 ELSE 2 * UlpOf(hi \div 2)

FltNorm(hi, lo) == <<hi + (lo \div LimbBase), lo % LimbBase>>

\* round-to-nearest, ties-to-even, of an exact sum
FltRound(x) ==
    LET u == UlpOf(x[1])
        r == x[2] % u
        down == x[2] - r
        up == (2 * r > u) \/ (2 * r = u /\ (down \div u) % 2 = 1)
    IN  FltNorm(x[1], IF up THEN down + u ELSE down)

FltAdd(x, y) == FltRound(FltNorm(x[1] + y[1], x[2] + y[2]))

\* sqrt(d) in binary64, for the squared distances of the bounded grids
SqrtTable ==
    0 :> <<0, 0>> @@ 1 :> <<8388608, 0>> @@ 2 :> <<11863283, 109001677>> @@
    4 :> <<16777216, 0>> @@ 5 :> <<18757497, 389015888>> @@
    8 :> <<23726566, 218003354>> @@ 9 :> <<25165824, 0>> @@
    10 :> <<26527107, 364164774>> @@ 13 :> <<30245556, 146977766>> @@
    16 :> <<33554432, 0>> @@ 17 :> <<34587116, 448771100>> @@
    18 :> <<35589849, 327005028>> @@ 20 :> <<37514995, 241160864>> @@
    25 :> <<41943040, 0>> @@ 26 :> <<42773675, 474529752>> @@
    29 :> <<45174036, 312698828>> @@ 32 :> <<47453132, 436006708>> @@
    34 :> <<48913569, 382635656>> @@ 36 :> <<50331648, 0>> @@
    37 :> <<51025910, 227504356>> @@ 40 :> <<53054215, 191458636>> @@
    41 :> <<53713299, 109050880>> @@ 45 :> <<56272493, 93305840>> @@
    49 :> <<58720256, 0>> @@ 50 :> <<59316416, 8137472>> @@ <<>>

---------------------------------------------------------------------------
(* planning_utils.py *)

Min(S) == CHOOSE x \in S : \A y \in S : x <= y
Max(S) == CHOOSE x \in S : \A y \in S : x >= y

\* np.clip(x, a_min, a_max) = minimum(maximum(x, a_min), a_max)
Clip(x, a_min, a_max) == Min({Max({x, a_min}), a_max})

\* create_grid without the safety distance in its altitude test
create_grid_by_obstacle_top(data, drone_altitude, safety_distance) ==
    IF data = <<>>
    THEN [raised |-> "ValueError"]
    ELSE
        LET rows == 1 .. Len(data)
            north_min == Min({ data[i][1] - data[i][4] : i \in rows })
            north_max == Max({ data[i][1] + data[i][4] : i \in rows })
            east_min == Min({ data[i][2] - data[i][5] : i \in rows })
            east_max == Max({ data[i][2] + data[i][5] : i \in rows })
            north_size == north_max - north_min
            east_size == east_max - east_min
            cells == (0 .. north_size - 1) \X (0 .. east_size - 1)
            marked(i) ==
                LET north == data[i][1]
                    east == data[i][2]
                    alt == data[i][3]
                    d_north == data[i][4]
                    d_east == data[i][5]
                    d_alt == data[i][6]
                    obstacle ==
                        << Clip(north - d_north - safety_distance - north_min,
                                0, north_size - 1),
                           Clip(north + d_north + safety_distance - north_min,
                                0, north_size - 1),
                           Clip(east - d_east - safety_distance - east_min,
                                0, east_size - 1),
                           Clip(east + d_east + safety_distance - east_min,
                                0, east_size - 1) >>
                IN  IF alt + d_alt > drone_altitude
                    THEN { c \in cells :
                             /\ obstacle[1] <= c[1] /\ c[1] < obstacle[2] + 1
                             /\ obstacle[3] <= c[2] /\ c[2] < obstacle[4] + 1 }
                    ELSE {}
        IN  [ raised |-> "none",
              grid |-> [rows |-> north_size, cols |-> east_size,
                        blocked |-> UNION { marked(i) : i \in rows }],
              north_min |-> north_min,
              east_min |-> east_min ]

\* create_grid(data, drone_altitude, safety_distance) on integer-valued data,
\* where np.floor, np.ceil and int() return their argument.  data is the
\* sequence of rows <<north, east, alt, d_north, d_east, d_alt>>; np.min of
\* no rows raises ValueError.  The slice assignment
\* grid[o0:o1+1, o2:o3+1] = 1 sets the cells with indices in both ranges; a
\* grid with a dimension of size 0 has no cells.
create_grid(data, drone_altitude, safety_distance) ==
    IF data = <<>>
    THEN [raised |-> "ValueError"]
    ELSE
        LET rows == 1 .. Len(data)
            north_min == Min({ data[i][1] - data[i][4] : i \in rows })
            north_max == Max({ data[i][1] + data[i][4] : i \in rows })
            east_min == Min({ data[i][2] - data[i][5] : i \in rows })
            east_max == Max({ data[i][2] + data[i][5] : i \in rows })
            north_size == north_max - north_min
            east_size == east_max - east_min
            cells == (0 .. north_size - 1) \X (0 .. east_size - 1)
            marked(i) ==
                LET north == data[i][1]
                    east == data[i][2]
                    alt == data[i][3]
                    d_north == data[i][4]
                    d_east == data[i][5]
                    d_alt == data[i][6]
                    obstacle ==
                        << Clip(north - d_north - safety_distance - north_min,
                                0, north_size - 1),
                           Clip(north + d_north + safety_distance - north_min,
                                0, north_size - 1),
                           Clip(east - d_east - safety_distance - east_min,
                                0, east_size - 1),
                           Clip(east + d_east + safety_distance - east_min,
                                0, east_size - 1) >>
                IN  IF alt + d_alt + safety_distance > drone_altitude
                    THEN { c \in cells :
                             /\ obstacle[1] <= c[1] /\ c[1] < obstacle[2] + 1
                             /\ obstacle[3] <= c[2] /\ c[2] < obstacle[4] + 1 }
                    ELSE {}
        IN  [ raised |-> "none",
              grid |-> [rows |-> north_size, cols |-> east_size,
                        blocked |-> UNION { marked(i) : i \in rows }],
              north_min |-> north_min,
              east_min |-> east_min ]

\* class Action: delta and cost of the eight moves, in enumeration order.
\* diag is TRUE for the moves whose cost is 2**0.5.
Action ==
    << [name |-> "WEST",      delta |-> <<0, -1>>,  diag |-> FALSE],
       [name |-> "EAST",      delta |-> <<0, 1>>,   diag |-> FALSE],
       [name |-> "NORTH",     delta |-> <<-1, 0>>,  diag |-> FALSE],
       [name |-> "SOUTH",     delta |-> <<1, 0>>,   diag |-> FALSE],
       [name |-> "NORTHWEST", delta |-> <<-1, -1>>, diag |-> TRUE],
       [name |-> "NORTHEAST", delta |-> <<-1, 1>>,  diag |-> TRUE],
       [name |-> "SOUTHWEST", delta |-> <<1, -1>>,  diag |-> TRUE],
       [name |-> "SOUTHEAST", delta |-> <<1, 1>>,   diag |-> TRUE] >>

\* Action.cost returning 1 for every move
ActionCostOfOne(action) == FOne

ActionCost(action) == IF action.diag THEN SqrtTable[2] ELSE FOne

\* is_valid_node without its "grid[x, y] == 1" test
is_valid_node_ignoring_obstacles(grid, node) ==
    LET n == grid.rows - 1
        m == grid.cols - 1
        x == node[1]
        y == node[2]
    IN  IF x < 0 \/ x > n \/ y < 0 \/ y > m THEN FALSE ELSE TRUE

is_valid_node(grid, node) ==
    LET n == grid.rows - 1
        m == grid.cols - 1
        x == node[1]
        y == node[2]
    IN  IF x < 0 \/ x > n \/ y < 0 \/ y > m
        THEN FALSE
        ELSE IF <<x, y>> \in grid.blocked THEN FALSE ELSE TRUE

valid_actions(grid, current_node) ==
    SelectSeq(Action,
              LAMBDA action :
                  is_valid_node(grid, <<current_node[1] + action.delta[1],
                                        current_node[2] + action.delta[2]>>))

heuristic(position, goal_position) ==
    LET dx == position[1] - goal_position[1]
        dy == position[2] - goal_position[2]
    IN  SqrtTable[dx * dx + dy * dy]

\* tuple comparison of the nodes of two queue items
NodeLess(p, q) == p[1] < q[1] \/ (p[1] = q[1] /\ p[2] < q[2])

\* (cost, node) tuples compare by cost, then by node
ItemLess(i, j) ==
    FltLess(i[1], j[1]) \/ (i[1] = j[1] /\ NodeLess(i[2], j[2]))

\* PriorityQueue.get(): the least item
QueueGet(queue) ==
    CHOOSE item \in queue : \A other \in queue \ {item} : ItemLess(item, other)

\* the body of "for action in valid_actions(grid, current_node)", from the
\* i-th valid action on; s is [queue, visited, branch, puts]
RECURSIVE ExpandFrom(_, _, _, _, _, _)
ExpandFrom(acts, i, current_node, current_cost, goal, s) ==
    IF i > Len(acts) THEN s
    ELSE
        LET action == acts[i]
            da == action.delta
            next_node == <<current_node[1] + da[1], current_node[2] + da[2]>>
            branch_cost == FltAdd(current_cost, ActionCost(action))
            queue_cost == FltAdd(branch_cost, heuristic(next_node, goal))
            s2 == IF next_node \notin s.visited
                  THEN [ visited |-> s.visited \cup {next_node},
                         branch |-> [ n \in DOMAIN s.branch \cup {next_node} |->
                                        IF n = next_node
                                        THEN [cost |-> branch_cost,
                                              prev |-> current_node,
                                              action |-> action.name]
                                        ELSE s.branch[n] ],
                         queue |-> s.queue \cup {<<queue_cost, next_node>>},
                         puts |-> Append(s.puts, next_node) ]
                  ELSE s
        IN  ExpandFrom(acts, i + 1, current_node, current_cost, goal, s2)

\* the while loop of a_star; returns the search state with found set
RECURSIVE AStarLoop(_, _, _, _)
AStarLoop(grid, start, goal, s) ==
    IF s.queue = {}
    THEN [found |-> FALSE, branch |-> s.branch, visited |-> s.visited,
          puts |-> s.puts]
    ELSE
        LET item == QueueGet(s.queue)
            current_node == item[2]
            current_cost == IF current_node = start
                            THEN FZero
                            ELSE s.branch[current_node].cost
            rest == [s EXCEPT !.queue = @ \ {item}]
        IN  IF current_node = goal
            THEN [found |-> TRUE, branch |-> s.branch, visited |-> s.visited,
                  puts |-> s.puts]
            ELSE AStarLoop(grid, start, goal,
                           ExpandFrom(valid_actions(grid, current_node), 1,
                                      current_node, current_cost, goal, rest))

\* "while branch[n][1] != start: path.append(branch[n][1]); n = branch[n][1]"
\* followed by the final append: the nodes appended after the goal
RECURSIVE Retrace(_, _, _)
Retrace(branch, start, n) ==
    IF branch[n].prev # start
    THEN <<branch[n].prev>> \o Retrace(branch, start, branch[n].prev)
    ELSE <<branch[n].prev>>

Reverse(s) == [ i \in 1 .. Len(s) |-> s[Len(s) + 1 - i] ]

\* a_star(grid, heuristic, start, goal).  visited = set(start) holds the two
\* coordinates of start as scalars, never the node itself, so no node tuple
\* is in visited at the start.  The result is [path, cost, raised, ...]:
\* raised is "KeyError" when branch[goal] is read without an entry.
a_star(grid, start, goal) ==
    LET s0 == [ queue |-> {<<FZero, start>>},
                visited |-> {},
                branch |-> <<>>,
                puts |-> <<start>> ]
        r == AStarLoop(grid, start, goal, s0)
    IN  IF r.found
        THEN IF goal \notin DOMAIN r.branch
             THEN [path |-> <<>>, cost |-> FZero, raised |-> "KeyError",
                   found |-> TRUE, puts |-> r.puts]
             ELSE [path |-> Reverse(<<goal>> \o Retrace(r.branch, start, goal)),
                   cost |-> r.branch[goal].cost, raised |-> "none",
                   found |-> TRUE, puts |-> r.puts]
        ELSE [path |-> <<>>, cost |-> FZero, raised |-> "none",
              found |-> FALSE, puts |-> r.puts]

---------------------------------------------------------------------------
(* motion_planning.py: prune_path *)

Abs(x) == IF x < 0 THEN -x ELSE x

\* bresenham(x0, y0, x1, y1) of the bresenham package: the cells of the
\* rasterized line from (x0, y0) to (x1, y1), both ends included, in order
RECURSIVE BresenhamFrom(_, _, _, _, _, _, _)
BresenhamFrom(x, y, D, dx, dy, origin, dir) ==
    IF x > dx THEN <<>>
    ELSE
        LET pt == <<origin[1] + x * dir.xx + y * dir.yx,
                    origin[2] + x * dir.xy + y * dir.yy>>
            y2 == IF D >= 0 THEN y + 1 ELSE y
            D2 == (IF D >= 0 THEN D - 2 * dx ELSE D) + 2 * dy
        IN  <<pt>> \o BresenhamFrom(x + 1, y2, D2, dx, dy, origin, dir)

bresenham(x0, y0, x1, y1) ==
    LET xsign == IF x1 - x0 > 0 THEN 1 ELSE -1
        ysign == IF y1 - y0 > 0 THEN 1 ELSE -1
        adx == Abs(x1 - x0)
        ady == Abs(y1 - y0)
        steep == ~(adx > ady)
        dx == IF steep THEN ady ELSE adx
        dy == IF steep THEN adx ELSE ady
        dir == IF steep
               THEN [xx |-> 0, xy |-> ysign, yx |-> xsign, yy |-> 0]
               ELSE [xx |-> xsign, xy |-> 0, yx |-> 0, yy |-> ysign]
    IN  BresenhamFrom(0, 0, 2 * dy - dx, dx, dy, <<x0, y0>>, dir)

\* prune_path returning prune_path(path[1:], grid) where the line is blocked
RECURSIVE prune_path_dropping_first(_, _)
prune_path_dropping_first(path, grid) ==
    IF Len(path) < 3 THEN path
    ELSE
        LET first == path[1]
            third == path[3]
            line == bresenham(first[1], first[2], third[1], third[2])
        IN  IF \E k \in 1 .. Len(line) : line[k] \in grid.blocked
            THEN prune_path_dropping_first(Tail(path), grid)
            ELSE prune_path_dropping_first(<<path[1]>> \o Tail(Tail(path)), grid)

\* prune_path without its test of the cells of the line
RECURSIVE prune_path_without_line_test(_, _)
prune_path_without_line_test(path, grid) ==
    IF Len(path) < 3 THEN path
    ELSE prune_path_without_line_test(<<path[1]>> \o Tail(Tail(path)), grid)

RECURSIVE prune_path(_, _)
prune_path(path, grid) ==
    IF Len(path) < 3 THEN path
    ELSE
        LET first == path[1]
            third == path[3]
            line == bresenham(first[1], first[2], third[1], third[2])
        IN  IF \E k \in 1 .. Len(line) : line[k] \in grid.blocked
            THEN <<path[1]>> \o prune_path(Tail(path), grid)
            ELSE prune_path(<<path[1]>> \o Tail(Tail(path)), grid)

---------------------------------------------------------------------------
(* motion_planning.py: class MotionPlanning *)

TARGET_ALTITUDE == 10
SAFETY_DISTANCE == 2

\* What plan_path reads from outside the object: the grid and the offsets
\* that create_grid makes of colliders.csv, the grid cell of the vehicle's
\* global position, and the grid cell of the fixed goal.
GridOffset == <<-1, -2>>

MissionGrids == { g \in Grids : Cardinality(g.blocked) <= MaxMissionBlocked }

PlanEnvs ==
    { [grid |-> g, north_offset |-> GridOffset[1], east_offset |-> GridOffset[2],
       grid_start |-> s, grid_goal |-> <<GridRows - 1, GridCols - 1>>] :
        g \in MissionGrids, s \in AllCells }

\* the values the telemetry attributes take (metres, local frame)
LocalPositions ==
    { <<c[1] + GridOffset[1], c[2] + GridOffset[2], d>> :
        c \in AllCells, d \in {0, -TARGET_ALTITUDE} }
LocalVelocities == { <<0, 0>>, <<1, 0>> }
GlobalHeights == { 0, TARGET_ALTITUDE }

\* the object as the callbacks see it
Self ==
    [ flight_state |-> flight_state, target_position |-> target_position,
      waypoints |-> waypoints, in_mission |-> in_mission,
      armed |-> armed, guided |-> guided,
      local_position |-> local_position, local_velocity |-> local_velocity,
      global_height |-> global_height,
      commands |-> commands, sent |-> sent, raised |-> raised ]

arming_transition(self) ==
    [self EXCEPT !.flight_state = "ARMING",
                 !.commands = @ \o << <<"arm">>, <<"take_control">> >>]

\* takeoff_transition without its self.takeoff(...) call
takeoff_transition_without_command(self) ==
    [self EXCEPT !.flight_state = "TAKEOFF"]

takeoff_transition(self) ==
    [self EXCEPT !.flight_state = "TAKEOFF",
                 !.commands = Append(@, <<"takeoff", self.target_position[3]>>)]

\* self.waypoints.pop(0) raises IndexError on an empty list, after
\* flight_state has been assigned
waypoint_transition(self) ==
    IF self.waypoints = <<>>
    THEN [self EXCEPT !.flight_state = "WAYPOINT", !.raised = "IndexError"]
    ELSE LET target == Head(self.waypoints)
         IN  [self EXCEPT !.flight_state = "WAYPOINT",
                          !.target_position = target,
                          !.waypoints = Tail(@),
                          !.commands = Append(@, <<"cmd_position", target[1],
                                                   target[2], target[3], target[4]>>)]

landing_transition(self) ==
    [self EXCEPT !.flight_state = "LANDING",
                 !.commands = Append(@, <<"land">>)]

\* disarming_transition assigning States.MANUAL
disarming_transition_to_manual(self) ==
    [self EXCEPT !.flight_state = "MANUAL",
                 !.commands = @ \o << <<"disarm">>, <<"release_control">> >>]

disarming_transition(self) ==
    [self EXCEPT !.flight_state = "DISARMING",
                 !.commands = @ \o << <<"disarm">>, <<"release_control">> >>]

\* manual_transition without its "self.in_mission = False"
manual_transition_keeping_mission(self) ==
    [self EXCEPT !.flight_state = "MANUAL",
                 !.commands = Append(@, <<"stop">>)]

manual_transition(self) ==
    [self EXCEPT !.flight_state = "MANUAL",
                 !.commands = Append(@, <<"stop">>),
                 !.in_mission = FALSE]

send_waypoints(self) == [self EXCEPT !.sent = Append(@, self.waypoints)]

\* a_star(grid, heuristic, grid_start, grid_goal) for each thing plan_path
\* can read, evaluated once
Searched ==
    [ env \in PlanEnvs |-> a_star(env.grid, env.grid_start, env.grid_goal) ]

\* plan_path: an exception of a_star leaves the method after flight_state
\* and target_position[2] have been assigned
plan_path(self, env) ==
    LET s1 == [self EXCEPT !.flight_state = "PLANNING",
                           !.target_position[3] = TARGET_ALTITUDE,
                           !.commands = Append(@, <<"set_home_position">>)]
        found == Searched[env]
        path == prune_path(found.path, env.grid)
        wps == [ i \in 1 .. Len(path) |->
                   <<path[i][1] + env.north_offset, path[i][2] + env.east_offset,
                     TARGET_ALTITUDE, 0>> ]
    IN  IF found.raised # "none"
        THEN [s1 EXCEPT !.raised = found.raised]
        ELSE send_waypoints([s1 EXCEPT !.waypoints = wps])

\* local_position_callback without its "len(self.waypoints) > 0" test
local_position_callback_ignoring_queue(self) ==
    IF self.flight_state = "TAKEOFF"
    THEN IF 100 * (-1 * self.local_position[3]) > 95 * self.target_position[3]
         THEN waypoint_transition(self)
         ELSE self
    ELSE IF self.flight_state = "WAYPOINT"
    THEN LET dn == self.target_position[1] - self.local_position[1]
             de == self.target_position[2] - self.local_position[2]
             vn == self.local_velocity[1]
             ve == self.local_velocity[2]
         IN  IF dn * dn + de * de < 1
             THEN IF vn * vn + ve * ve < 1
                  THEN landing_transition(self)
                  ELSE self
             ELSE self
    ELSE self

local_position_callback(self) ==
    IF self.flight_state = "TAKEOFF"
    THEN IF 100 * (-1 * self.local_position[3]) > 95 * self.target_position[3]
         THEN waypoint_transition(self)
         ELSE self
    ELSE IF self.flight_state = "WAYPOINT"
    THEN LET dn == self.target_position[1] - self.local_position[1]
             de == self.target_position[2] - self.local_position[2]
             vn == self.local_velocity[1]
             ve == self.local_velocity[2]
         IN  IF dn * dn + de * de < 1          \* norm(...) < 1.0
             THEN IF Len(self.waypoints) > 0
                  THEN waypoint_transition(self)
                  ELSE IF vn * vn + ve * ve < 1
                       THEN landing_transition(self)
                       ELSE self
             ELSE self
    ELSE self

\* velocity_callback without its "self.flight_state == States.LANDING" test
velocity_callback_in_any_state(self) ==
    IF 10 * self.global_height < 1
    THEN IF 100 * Abs(self.local_position[3]) < 5
         THEN disarming_transition(self)
         ELSE self
    ELSE self

velocity_callback(self) ==
    IF self.flight_state = "LANDING"
    THEN IF 10 * self.global_height < 1                      \* < 0.1
         THEN IF 100 * Abs(self.local_position[3]) < 5       \* < 0.05
              THEN disarming_transition(self)
              ELSE self
         ELSE self
    ELSE self

\* Python's ~ and & on bool operands: bool is an int subclass
Invert(b) == -(IF b THEN 1 ELSE 0) - 1

RECURSIVE BitAnd(_, _)
BitAnd(a, b) ==
    IF a = 0 \/ b = 0 THEN 0
    ELSE IF a = -1 THEN b
    ELSE IF b = -1 THEN a
    ELSE (a % 2) * (b % 2) + 2 * BitAnd(a \div 2, b \div 2)

Truthy(i) == i # 0

state_callback(self, env) ==
    IF self.in_mission
    THEN IF self.flight_state = "MANUAL"
         THEN arming_transition(self)
         ELSE IF self.flight_state = "ARMING"
         THEN IF self.armed THEN plan_path(self, env) ELSE self
         ELSE IF self.flight_state = "PLANNING"
         THEN takeoff_transition(self)
         ELSE IF self.flight_state = "DISARMING"
         THEN IF Truthy(BitAnd(Invert(self.armed), Invert(self.guided)))
              THEN manual_transition(self)
              ELSE self
         ELSE self
    ELSE self

---------------------------------------------------------------------------
(* The mission: telemetry messages set an attribute and run its callback *)

Apply(self) ==
    /\ flight_state' = self.flight_state
    /\ target_position' = self.target_position
    /\ waypoints' = self.waypoints
    /\ in_mission' = self.in_mission
    /\ armed' = self.armed
    /\ guided' = self.guided
    /\ local_position' = self.local_position
    /\ local_velocity' = self.local_velocity
    /\ global_height' = self.global_height
    /\ commands' = self.commands
    /\ sent' = self.sent
    /\ raised' = self.raised

NotCalled == [called |-> FALSE]

\* no prune_path call and no create_grid call of its own is in progress
PruneIdle ==
    /\ p_grid = [rows |-> GridRows, cols |-> GridCols, blocked |-> {}]
    /\ p_path = <<>>
    /\ p_out = NotCalled

GridIdle ==
    /\ g_data = <<>>
    /\ g_safety = 0
    /\ g_out = NotCalled

\* the object as __init__ leaves it, before any message
Constructed ==
    /\ flight_state = "MANUAL"
    /\ target_position = <<0, 0, 0>>
    /\ waypoints = <<>>
    /\ in_mission = TRUE
    /\ armed = FALSE
    /\ guided = FALSE
    /\ local_position = <<0, 0, 0>>
    /\ local_velocity = <<0, 0>>
    /\ global_height = 0
    /\ commands = <<>>
    /\ sent = <<>>
    /\ raised = "none"
    /\ msg = "none"

AStarIdle ==
    /\ a_grid = [rows |-> GridRows, cols |-> GridCols, blocked |-> {}]
    /\ a_start = <<0, 0>>
    /\ a_goal = <<0, 0>>
    /\ a_out = NotCalled

\* MotionPlanning.__init__
Init ==
    /\ flight_state = "MANUAL"
    /\ target_position = <<0, 0, 0>>
    /\ waypoints = <<>>
    /\ in_mission = TRUE
    /\ armed = FALSE
    /\ guided = FALSE
    /\ local_position = <<0, 0, 0>>
    /\ local_velocity = <<0, 0>>
    /\ global_height = 0
    /\ commands = <<>>
    /\ sent = <<>>
    /\ raised = "none"
    /\ msg = "none"
    /\ a_grid = [rows |-> GridRows, cols |-> GridCols, blocked |-> {}]
    /\ a_start = <<0, 0>>
    /\ a_goal = <<0, 0>>
    /\ a_out = NotCalled
    /\ PruneIdle
    /\ GridIdle

LocalPositionMsg ==
    /\ \E p \in LocalPositions :
         Apply(local_position_callback(
                 [Self EXCEPT !.local_position = p, !.raised = "none"]))
    /\ msg' = "LOCAL_POSITION"
    /\ UNCHANGED <<astar_vars, prune_vars, grid_vars>>

LocalVelocityMsg ==
    /\ \E v \in LocalVelocities :
         Apply(velocity_callback(
                 [Self EXCEPT !.local_velocity = v, !.raised = "none"]))
    /\ msg' = "LOCAL_VELOCITY"
    /\ UNCHANGED <<astar_vars, prune_vars, grid_vars>>

\* a GLOBAL_POSITION message has no callback registered
GlobalPositionMsg ==
    /\ \E h \in GlobalHeights : global_height' = h
    /\ msg' = "GLOBAL_POSITION"
    /\ UNCHANGED <<flight_state, target_position, waypoints, in_mission, armed,
                   guided, local_position, local_velocity, commands, sent, raised>>
    /\ UNCHANGED <<astar_vars, prune_vars, grid_vars>>

\* what plan_path would read, when this message makes it run
EnvsRead(self) ==
    IF self.in_mission /\ self.flight_state = "ARMING" /\ self.armed
    THEN PlanEnvs
    ELSE { CHOOSE e \in PlanEnvs : TRUE }

StateMsg ==
    /\ \E a \in BOOLEAN, g \in BOOLEAN :
         LET self == [Self EXCEPT !.armed = a, !.guided = g, !.raised = "none"]
         IN  \E env \in EnvsRead(self) : Apply(state_callback(self, env))
    /\ msg' = "STATE"
    /\ UNCHANGED <<astar_vars, prune_vars, grid_vars>>

Next == LocalPositionMsg \/ LocalVelocityMsg \/ GlobalPositionMsg \/ StateMsg

Spec == Init /\ [][Next]_vars

---------------------------------------------------------------------------
(* a_star applied to every bounded grid, start and goal *)

InitAStar ==
    /\ a_grid \in Grids
    /\ a_start \in AllCells
    /\ a_goal \in AllCells
    /\ a_out = NotCalled
    /\ Constructed
    /\ PruneIdle
    /\ GridIdle

CallAStar ==
    /\ ~a_out.called
    /\ a_out' = [called |-> TRUE] @@ a_star(a_grid, a_start, a_goal)
    /\ UNCHANGED <<a_grid, a_start, a_goal>>
    /\ UNCHANGED <<drone_vars, prune_vars, grid_vars>>

NextAStar == CallAStar

SpecAStar == InitAStar /\ [][NextAStar]_vars

---------------------------------------------------------------------------
(* Reference definitions for the properties of a_star: a free cell, and the *)
(* least cost of a walk, found by exhaustive relaxation over the grid and   *)
(* the eight moves.  A cost <<a, b>> is a + b * sqrt(2): a cardinal and b   *)
(* diagonal moves.                                                          *)

CellsOf(grid) == (0 .. grid.rows - 1) \X (0 .. grid.cols - 1)

Free(grid, node) == node \in CellsOf(grid) /\ node \notin grid.blocked

Adjacent(p, q) ==
    /\ p # q
    /\ Abs(p[1] - q[1]) <= 1
    /\ Abs(p[2] - q[2]) <= 1

StepCost(p, q) == IF p[1] # q[1] /\ p[2] # q[2] THEN <<0, 1>> ELSE <<1, 0>>

CostSum(c, d) == <<c[1] + d[1], c[2] + d[2]>>

\* c[1] + c[2] * sqrt(2) < d[1] + d[2] * sqrt(2)
CostLess(c, d) ==
    LET p == c[1] - d[1]
        q == c[2] - d[2]
    IN  IF p <= 0 /\ q <= 0 THEN p < 0 \/ q < 0
        ELSE IF p >= 0 /\ q >= 0 THEN FALSE
        ELSE IF p < 0 THEN p * p > 2 * q * q
        ELSE p * p < 2 * q * q

Unreached == <<-1, -1>>

LeastCost(costs) == CHOOSE c \in costs : \A d \in costs : ~CostLess(d, c)

RECURSIVE Relax(_, _, _)
Relax(grid, dist, k) ==
    LET into(n) ==
            { CostSum(dist[m], StepCost(m, n)) :
                m \in { m \in DOMAIN dist : dist[m] # Unreached /\ Adjacent(m, n) } }
        next == [ n \in DOMAIN dist |->
                    LET cands == (IF dist[n] = Unreached THEN {} ELSE {dist[n]})
                                 \cup (IF Free(grid, n) THEN into(n) ELSE {})
                    IN  IF cands = {} THEN Unreached ELSE LeastCost(cands) ]
    IN  IF k = 0 \/ next = dist THEN dist ELSE Relax(grid, next, k - 1)

\* the least cost of a walk from start to goal through free cells, or
\* Unreached
Dijkstra(grid, start, goal) ==
    LET cells == CellsOf(grid) \cup {start, goal}
        d0 == [ n \in cells |-> IF n = start THEN <<0, 0>> ELSE Unreached ]
    IN  Relax(grid, d0, Cardinality(cells))[goal]

RECURSIVE PathCost(_)
PathCost(path) ==
    IF Len(path) < 2 THEN <<0, 0>>
    ELSE CostSum(StepCost(path[1], path[2]), PathCost(Tail(path)))

Reachable(grid, start, goal) == Dijkstra(grid, start, goal) # Unreached

---------------------------------------------------------------------------
(* prune_path applied to every bounded grid and path *)

\* the most nodes a walk given to prune_path has
MaxPathLen == 4
\* the nodes prune_path looks at in one call: path[0] to path[2]
PruneWindow == 3

\* the sequences of at most n cells whose consecutive cells are adjacent
RECURSIVE WalksOf(_)
WalksOf(n) ==
    IF n = 0 THEN { <<>> }
    ELSE LET shorter == WalksOf(n - 1)
         IN  shorter \cup
             { Append(w, c) :
                 <<w, c>> \in
                   { wc \in { v \in shorter : Len(v) = n - 1 } \X AllCells :
                       wc[1] = <<>> \/ Adjacent(wc[1][Len(wc[1])], wc[2]) } }

\* the paths given to prune_path: the walks, of free and of blocked cells,
\* and every sequence of cells that fits the window
PrunePaths ==
    WalksOf(MaxPathLen) \cup UNION { [1 .. n -> AllCells] : n \in 0 .. PruneWindow }

\* the numbers of blocked cells of the grids given to prune_path
PruneBlockedCounts == 0 .. 1

PruneGrids == { g \in Grids : Cardinality(g.blocked) \in PruneBlockedCounts }

InitPrune ==
    /\ p_grid \in PruneGrids
    /\ p_path \in PrunePaths
    /\ p_out = NotCalled
    /\ Constructed
    /\ AStarIdle
    /\ GridIdle

CallPrune ==
    /\ ~p_out.called
    /\ p_out' = [called |-> TRUE, path |-> prune_path(p_path, p_grid)]
    /\ UNCHANGED <<p_grid, p_path>>
    /\ UNCHANGED <<drone_vars, astar_vars, grid_vars>>

NextPrune == CallPrune

SpecPrune == InitPrune /\ [][NextPrune]_vars

---------------------------------------------------------------------------
(* create_grid applied to every bounded obstacle list and safety distance *)

\* the greatest north coordinate of an obstacle centre
MaxNorth == 2
\* the values of the other columns of an obstacle row
Easts == 0 .. 1
Extents == 0 .. 1
Altitudes == { TARGET_ALTITUDE - 3, TARGET_ALTITUDE - 1, TARGET_ALTITUDE }
\* the numbers of rows of the obstacle data
DataLengths == 0 .. 2

ObstacleRows ==
    (0 .. MaxNorth) \X Easts \X Altitudes \X Extents \X Extents \X Extents

InitGrid ==
    /\ g_data \in UNION { [1 .. n -> ObstacleRows] : n \in DataLengths }
    /\ g_safety \in 0 .. SAFETY_DISTANCE
    /\ g_out = NotCalled
    /\ Constructed
    /\ AStarIdle
    /\ PruneIdle

CallGrid ==
    /\ ~g_out.called
    /\ g_out' = [called |-> TRUE]
                  @@ create_grid(g_data, TARGET_ALTITUDE, g_safety)
    /\ UNCHANGED <<g_data, g_safety>>
    /\ UNCHANGED <<drone_vars, astar_vars, prune_vars>>

NextGrid == CallGrid

SpecGrid == InitGrid /\ [][NextGrid]_vars

---------------------------------------------------------------------------
(* Properties of a_star, under SpecAStar *)

\* C2: for a valid start and a valid goal in the same connected free region,
\* the path that a_star returns costs what the least-cost walk of the
\* exhaustive search costs (stated for the calls that return; violated).
C2_CostIsLeast ==
    ( /\ a_out.called
      /\ a_out.raised = "none"
      /\ Free(a_grid, a_start)
      /\ Free(a_grid, a_goal)
      /\ Reachable(a_grid, a_start, a_goal) )
    => /\ a_out.path # <<>>
       /\ PathCost(a_out.path) = Dijkstra(a_grid, a_start, a_goal)

\* C3: for a valid start and every goal reachable from it, goal = start
\* included, a_star returns a non-empty path from start to goal (violated).
C3_PathJoinsStartToGoal ==
    ( /\ a_out.called
      /\ Free(a_grid, a_start)
      /\ Reachable(a_grid, a_start, a_goal) )
    => /\ a_out.raised = "none"
       /\ a_out.path # <<>>
       /\ a_out.path[1] = a_start
       /\ a_out.path[Len(a_out.path)] = a_goal

\* C4: an invalid start or goal is rejected before the search begins, with
\* an outcome that is not the normal return of the unreachable case, and no
\* path is returned (violated).
C4_InvalidEndpointRejected ==
    ( /\ a_out.called
      /\ (~Free(a_grid, a_start) \/ ~Free(a_grid, a_goal)) )
    => /\ a_out.raised # "none"
       /\ a_out.path = <<>>
       /\ a_out.puts = <<a_start>>

\* C5: for a valid start and a goal that no walk reaches, a_star leaves its
\* loop with the frontier empty and returns the empty path and cost 0,
\* without raising.
C5_UnreachableReturnsEmpty ==
    ( /\ a_out.called
      /\ Free(a_grid, a_start)
      /\ ~Reachable(a_grid, a_start, a_goal) )
    => /\ a_out.raised = "none"
       /\ ~a_out.found
       /\ a_out.path = <<>>
       /\ a_out.cost = FZero

\* a free goal all of whose neighbours are blocked or off the grid, searched
\* from a free start
C5_Witness ==
    /\ a_out.called
    /\ Free(a_grid, a_start)
    /\ Free(a_grid, a_goal)
    /\ a_start # a_goal
    /\ \A n \in CellsOf(a_grid) : Adjacent(n, a_goal) => n \in a_grid.blocked
    /\ a_out.path = <<>>

\* C17: a_star returns having inserted every node into the frontier at most
\* once, the start node included, so that the insertions number at most the
\* cells of the grid (violated).
C17_EachNodeInsertedOnce ==
    a_out.called
    => /\ \A i, j \in 1 .. Len(a_out.puts) :
            a_out.puts[i] = a_out.puts[j] => i = j
       /\ Len(a_out.puts) <= Cardinality(CellsOf(a_grid))

\* the cost of the move from p to q as Action gives it: 1, or 2**0.5
MoveCost(p, q) == IF p[1] # q[1] /\ p[2] # q[2] THEN SqrtTable[2] ELSE FOne

\* the float sum of the move costs along path[1 .. n], added in path order
RECURSIVE WalkCost(_, _)
WalkCost(path, n) ==
    IF n < 2 THEN FZero
    ELSE FltAdd(WalkCost(path, n - 1), MoveCost(path[n - 1], path[n]))

---------------------------------------------------------------------------
(* Properties of prune_path, under SpecPrune *)

\* a path of unblocked cells whose consecutive cells are adjacent
FreeWalk(path, grid) ==
    /\ \A i \in 1 .. Len(path) : Free(grid, path[i])
    /\ \A i \in 1 .. Len(path) - 1 : Adjacent(path[i], path[i + 1])

LineOf(p, q) == bresenham(p[1], p[2], q[1], q[2])

LineIsFree(p, q, grid) ==
    \A k \in 1 .. Len(LineOf(p, q)) : LineOf(p, q)[k] \notin grid.blocked

RECURSIVE IsSubsequence(_, _)
IsSubsequence(s, t) ==
    IF s = <<>> THEN TRUE
    ELSE IF t = <<>> THEN FALSE
    ELSE IF Head(s) = Head(t) THEN IsSubsequence(Tail(s), Tail(t))
    ELSE IsSubsequence(s, Tail(t))

\* C13: pruning the pruned path of a walk of unblocked, adjacent nodes gives
\* that pruned path again (violated).
C13_PruneIsIdempotent ==
    (p_out.called /\ FreeWalk(p_path, p_grid))
    => prune_path(p_out.path, p_grid) = p_out.path

C18_PrunedSegmentsAreFree ==
    (p_out.called /\ FreeWalk(p_path, p_grid))
    => \A i \in 1 .. Len(p_out.path) - 1 :
         LineIsFree(p_out.path[i], p_out.path[i + 1], p_grid)

\* a walk around a blocked cell, pruned to fewer nodes that are not adjacent
C18_Witness ==
    /\ p_out.called
    /\ FreeWalk(p_path, p_grid)
    /\ p_grid.blocked # {}
    /\ Len(p_out.path) < Len(p_path)
    /\ Len(p_out.path) >= 3
    /\ \E i \in 1 .. Len(p_out.path) - 1 :
         /\ p_out.path[i] # p_out.path[i + 1]
         /\ ~Adjacent(p_out.path[i], p_out.path[i + 1])
    /\ ~LineIsFree(p_path[1], p_path[Len(p_path)], p_grid)

---------------------------------------------------------------------------
(* Properties of create_grid, under SpecGrid *)

\* the grid indices that row spans on the north axis (axis = 1) or the east
\* axis (axis = 2), widened by the safety distance
FootprintLow(row, axis) ==
    row[axis] - row[axis + 3] - g_safety
      - (IF axis = 1 THEN g_out.north_min ELSE g_out.east_min)

FootprintHigh(row, axis) ==
    row[axis] + row[axis + 3] + g_safety
      - (IF axis = 1 THEN g_out.north_min ELSE g_out.east_min)

StrictlyInside(c, row) ==
    \A axis \in {1, 2} :
        FootprintLow(row, axis) < c[axis] /\ c[axis] < FootprintHigh(row, axis)

StrictlyOutside(c, row) ==
    \E axis \in {1, 2} :
        c[axis] < FootprintLow(row, axis) \/ c[axis] > FootprintHigh(row, axis)

\* outside the footprint clipped to the index range of the grid
StrictlyOutsideClipped(c, row) ==
    \E axis \in {1, 2} :
        LET size == IF axis = 1 THEN g_out.grid.rows ELSE g_out.grid.cols
        IN  \/ c[axis] < Clip(FootprintLow(row, axis), 0, size - 1)
            \/ c[axis] > Clip(FootprintHigh(row, axis), 0, size - 1)

\* the obstacle's top is at or above the target altitude
ReachesAltitude(row) == row[3] + row[6] >= TARGET_ALTITUDE

\* the obstacle's top plus the safety distance is above the target altitude
ExceedsWithMargin(row) == row[3] + row[6] + g_safety > TARGET_ALTITUDE

GridRowsOf(pred(_)) == { i \in 1 .. Len(g_data) : pred(g_data[i]) }

---------------------------------------------------------------------------
(* Properties of the flight state machine, under Spec *)

FlightEdges ==
    { <<"MANUAL", "ARMING">>, <<"ARMING", "PLANNING">>,
      <<"PLANNING", "TAKEOFF">>, <<"TAKEOFF", "WAYPOINT">>,
      <<"WAYPOINT", "WAYPOINT">>, <<"WAYPOINT", "LANDING">>,
      <<"LANDING", "DISARMING">>, <<"DISARMING", "MANUAL">> }

Issued(name) == \E i \in 1 .. Len(commands) : commands[i][1] = name

GoTos == SelectSeq(commands, LAMBDA c : c[1] = "cmd_position")

\* C1: flight_state changes only along the edges of the transition table.
C1_OnlyTableEdges ==
    [][flight_state' # flight_state
         => <<flight_state, flight_state'>> \in FlightEdges]_vars

\* a mission flown to its end, over at least two waypoints
C1_Witness ==
    /\ flight_state = "MANUAL"
    /\ ~in_mission
    /\ Len(GoTos) >= 2
    /\ Issued("land")

\* C6: every transition into WAYPOINT, from TAKEOFF or from WAYPOINT, takes
\* the head off the waypoint queue, makes it target_position and issues one
\* go-to command for it (violated).
C6_EntryPopsHead ==
    [][ ( /\ flight_state' = "WAYPOINT"
          /\ \/ flight_state = "TAKEOFF"
             \/ /\ flight_state = "WAYPOINT"
                /\ <<waypoints, target_position, commands>>'
                     # <<waypoints, target_position, commands>> )
        => /\ waypoints # <<>>
           /\ waypoints' = Tail(waypoints)
           /\ target_position' = Head(waypoints)
           /\ commands' = Append(commands, <<"cmd_position">> \o Head(waypoints))
      ]_vars

\* C7: LANDING is entered, and land is issued, only from WAYPOINT by a
\* position message that finds the vehicle within 1.0 of target_position
\* with the queue empty and the horizontal speed below 1.0.
C7_LandingOnlyAtLastWaypoint ==
    [][ ( \/ (flight_state' = "LANDING" /\ flight_state # "LANDING")
          \/ commands' # commands /\ commands'[Len(commands')] = <<"land">> )
        => /\ flight_state = "WAYPOINT"
           /\ flight_state' = "LANDING"
           /\ msg' = "LOCAL_POSITION"
           /\ waypoints = <<>>
           /\ waypoints' = <<>>
           /\ (target_position[1] - local_position'[1])
                * (target_position[1] - local_position'[1])
              + (target_position[2] - local_position'[2])
                * (target_position[2] - local_position'[2]) < 1
           /\ local_velocity[1] * local_velocity[1]
              + local_velocity[2] * local_velocity[2] < 1
           /\ commands' = Append(commands, <<"land">>)
      ]_vars

\* LANDING entered after the planned waypoints were flown
C7_Witness ==
    /\ flight_state = "LANDING"
    /\ Len(GoTos) >= 2
    /\ Issued("land")

\* C8: in DISARMING a status message moves flight_state to MANUAL only if
\* it reports the vehicle disarmed and not guided (violated).
C8_ManualOnlyWhenDisarmedUnguided ==
    [][ (flight_state = "DISARMING" /\ (flight_state' = "MANUAL" \/ ~in_mission'))
        => (~armed' /\ ~guided') ]_vars

\* C9 as claimed: no callback returns with flight_state = PLANNING
\* (violated).
C9_NeverRestsInPlanning == flight_state # "PLANNING"

\* C9 as amended: the callback that handles the armed status message in
\* ARMING returns with flight_state = PLANNING and no takeoff issued;
\* PLANNING is left only by a later status message, which sets TAKEOFF and
\* issues takeoff to target_position[2]; other messages leave PLANNING as
\* it is.
C9_TakeoffWaitsForStatusMessage ==
    [][ /\ (flight_state = "ARMING" /\ flight_state' # "ARMING")
           => (flight_state' = "PLANNING" /\ msg' = "STATE" /\ armed'
               /\ ~Issued("takeoff")')
        /\ (flight_state = "PLANNING" /\ msg' = "STATE")
           => /\ flight_state' = "TAKEOFF"
              /\ commands' = Append(commands, <<"takeoff", TARGET_ALTITUDE>>)
        /\ (flight_state = "PLANNING" /\ msg' # "STATE")
           => (flight_state' = "PLANNING" /\ commands' = commands)
      ]_vars

\* takeoff issued by the status message that followed planning
C9_Witness ==
    /\ flight_state = "TAKEOFF"
    /\ msg = "STATE"
    /\ commands[Len(commands)] = <<"takeoff", TARGET_ALTITUDE>>

\* C10: once plan_path has sent an empty waypoint list, flight_state stays
\* PLANNING, no takeoff and no go-to is issued and no pop of the empty queue
\* is attempted (violated).
C10_StallsInPlanning ==
    (sent # <<>> /\ sent[Len(sent)] = <<>>)
    => /\ flight_state = "PLANNING"
       /\ ~Issued("takeoff")
       /\ ~Issued("cmd_position")
       /\ raised # "IndexError"

\* C11: delivering the message just delivered once more, with the same
\* telemetry, leaves flight_state, the waypoint queue and the commands
\* issued as the first delivery left them (violated).
C11_RepeatedEventChangesNothing ==
    LET same(s) == /\ s.flight_state = flight_state
                   /\ s.waypoints = waypoints
                   /\ s.commands = commands
    IN  /\ msg = "LOCAL_POSITION" => same(local_position_callback(Self))
        /\ msg = "LOCAL_VELOCITY" => same(velocity_callback(Self))
        /\ msg = "STATE"
             => \A env \in EnvsRead(Self) : same(state_callback(Self, env))

\* C12: a position message outside TAKEOFF and WAYPOINT, a velocity message
\* outside LANDING and a status message in TAKEOFF, WAYPOINT or LANDING
\* leave flight_state, target_position, the waypoint queue and in_mission
\* as they were, issue no command and raise nothing.
C12_UntriggeredMessageIsNoOp ==
    [][ ( \/ msg' = "LOCAL_POSITION" /\ flight_state \notin {"TAKEOFF", "WAYPOINT"}
          \/ msg' = "LOCAL_VELOCITY" /\ flight_state # "LANDING"
          \/ msg' = "STATE" /\ flight_state \in {"TAKEOFF", "WAYPOINT", "LANDING"} )
        => /\ UNCHANGED <<flight_state, target_position, waypoints, in_mission,
                          commands, sent>>
           /\ raised' = "none"
      ]_vars

\* a velocity message delivered on the ground, before the mission, and a
\* status message delivered in flight
C12_Witness ==
    \/ /\ msg = "LOCAL_VELOCITY"
       /\ flight_state = "ARMING"
       /\ global_height = 0
       /\ local_position[3] = 0
    \/ /\ msg = "STATE"
       /\ flight_state = "WAYPOINT"
       /\ ~armed
       /\ ~guided

CountOf(name) == Len(SelectSeq(commands, LAMBDA c : c[1] = name))

\* C20: once in_mission is False no message changes flight_state from MANUAL
\* or issues a command, and arm, plan_path (its set_home_position), takeoff,
\* land and disarm are each performed at most once.
C20_MissionRunsOnce ==
    [][ /\ ~in_mission
           => /\ flight_state = "MANUAL"
              /\ flight_state' = "MANUAL"
              /\ commands' = commands
              /\ ~in_mission'
        /\ \A name \in {"arm", "set_home_position", "takeoff", "land", "disarm"} :
             CountOf(name)' <= 1
        /\ Len(sent') <= 1
      ]_vars

\* a position message delivered after the mission has ended with every
\* command of a mission issued
C20_Witness ==
    /\ ~in_mission
    /\ msg = "LOCAL_POSITION"
    /\ \A name \in {"arm", "set_home_position", "takeoff", "land", "disarm"} :
         CountOf(name) = 1

WaypointOf(env, node) ==
    <<node[1] + env.north_offset, node[2] + env.east_offset, TARGET_ALTITUDE, 0>>

\* C16: the queue that plan_path leaves does not begin with the waypoint of
\* grid_start, the cell the search started from (violated).
C16_HeadIsNotStart ==
    [][ \A env \in PlanEnvs :
          LET self == [Self EXCEPT !.armed = armed', !.guided = guided',
                                   !.raised = "none"]
          IN  ( /\ msg' = "STATE"
                /\ flight_state = "ARMING"
                /\ flight_state' = "PLANNING"
                /\ waypoints' = plan_path(self, env).waypoints
                /\ waypoints' # <<>> )
              => Head(waypoints') # WaypointOf(env, env.grid_start)
      ]_vars

====
